---------------------------- MODULE Spec2Model ----------------------------
(***************************************************************************)
(* INE credential validation pipeline (kikcervantes/creditxpress-app).     *)
(*                                                                         *)
(* Two validators ship in the repository:                                  *)
(*   "improved"  src/ine-validator.js   (format gate + four quorum stages) *)
(*   "legacy"    src/unnamed/part_000   (five stages, random stubs)        *)
(*                                                                         *)
(* One call of validateINE is modelled as a sequential process whose       *)
(* steps are the awaited stage runners.  Environment operations (image     *)
(* loading, canvas access, the awaited legacy detectors, the clock) are    *)
(* inputs chosen by the environment at the call site.                      *)
(***************************************************************************)
EXTENDS Integers, Sequences, FiniteSets, TLC

VARIABLES
    version,    \* which validator runs: "improved" | "legacy"
    imageData,  \* the evidence handed to validateINE
    now,        \* reading of new Date() in the validity stage (epoch days)
    pc,         \* position of the validateINE call
    results,    \* the report object built by validateINE
    calls,      \* stage runners invoked so far, in order
    invoked,    \* awaited detector calls so far: [stage, det, out]
    instance,   \* the fields the constructor sets on the INEValidator object
    other       \* another call on the same instance, while it is not running

vars == <<version, imageData, now, pc, results, calls, invoked, instance, other>>

-----------------------------------------------------------------------------
(* Bounds of the model *)

\* longest element list drawn for a stage when the closing statements of
\* validateINE are exercised on their own
MaxChecks == 3

\* longest span, in calendar years, between the issue and expiry dates
\* handed to checkValidityPeriod when it is exercised on its own
MaxPeriodYears == 11

\* longest element list drawn for a stage when calculateScore is exercised
\* on its own
MaxElems == 2

\* element lists of the pipelines have at most 5 entries (legacy visible stage)
LongestStage == 5

-----------------------------------------------------------------------------
(* Small helpers *)

Max(a, b) == IF a >= b THEN a ELSE b

RECURSIVE Fact(_)
Fact(n) == IF n <= 1 THEN 1 ELSE n * Fact(n - 1)

\* every element count 1..Max(MaxElems, LongestStage) divides CommonDen, so
\* the quotients passed/length are kept exactly as integers scaled by it
CommonDen == Fact(Max(MaxElems, LongestStage))

\* a faulty alternative: every element counts, passed or not
CountAll(elements) == Len(elements)

RECURSIVE CountPassed(_)
\* elements.filter(e => e.passed).length
CountPassed(elements) ==
    IF elements = <<>> THEN 0
    ELSE (IF Head(elements).passed THEN 1 ELSE 0) + CountPassed(Tail(elements))

Elem(n, p) == [name |-> n, passed |-> p]

\* a stage result; documentType is only meaningful for the format stage and
\* error only for the legacy QR stage
StageResult(id, passed, elements) ==
    [id |-> id, passed |-> passed, elements |-> elements,
     documentType |-> "n/a", error |-> FALSE]

Call(stage, det, out) == [stage |-> stage, det |-> det, out |-> out]

-----------------------------------------------------------------------------
(* Evidence *)

\* kind: "null"       null / undefined
\*       "nonstring"  a truthy value that is not a string (number, object)
\*       "text"       a string that is not a data URL (may be a loadable URL)
\*       "dataother"  a data URL that is not data:image/
\*       "dataimage"  a data:image/ URL
\* decodable: whether an Image given this src can load at all
\* width, height: naturalWidth / naturalHeight once loaded
\* blue: whether a dominant colour of the sampled pixels has b > r and b > g
\* b64len: length of the text after the first comma
Dims == { <<400, 250>>, <<520, 320>>, <<640, 400>>, <<1024, 640>>, <<800, 800>> }

Ev(kind, dec, d, blue, n) ==
    [kind |-> kind, decodable |-> dec, width |-> d[1], height |-> d[2],
     blue |-> blue, b64len |-> n]

Evidence ==
    { Ev("null", FALSE, <<0, 0>>, FALSE, 0),
      Ev("null", TRUE, <<640, 400>>, FALSE, 0),
      Ev("nonstring", FALSE, <<0, 0>>, FALSE, 0),
      Ev("text", FALSE, <<0, 0>>, FALSE, 0),
      Ev("text", TRUE, <<640, 400>>, TRUE, 0),
      Ev("dataother", FALSE, <<0, 0>>, FALSE, 8),
      Ev("dataimage", FALSE, <<0, 0>>, FALSE, 8) }
    \cup { Ev("dataimage", TRUE, d, b, 8) : d \in Dims, b \in BOOLEAN }

IsString(e) == e.kind \in {"text", "dataother", "dataimage"}
Falsy(e) == e.kind = "null"
StartsWithData(e) == e.kind \in {"dataother", "dataimage"}
StartsWithDataImage(e) == e.kind = "dataimage"

\* extractFileSize calls imageData.startsWith on any truthy value: a truthy
\* value without that method raises a TypeError
extractFileSizeThrows(e) == ~Falsy(e) /\ ~IsString(e)

extractFileSize(e) ==
    IF Falsy(e) \/ ~StartsWithData(e) THEN 0
    ELSE IF e.b64len = 0 THEN 0
    ELSE (e.b64len * 3) \div 4

\* createImage: the outcomes the load of this evidence can have
\* (TRUE = onload, FALSE = onerror)
LoadOutcomes(e) == IF e.decodable THEN {TRUE, FALSE} ELSE {FALSE}

-----------------------------------------------------------------------------
(* Improved validator: pure helpers *)

Upper == {"A","B","C","D","E","F","G","H","I","J","K","L","M",
          "N","O","P","Q","R","S","T","U","V","W","X","Y","Z"}
Digit == {"0","1","2","3","4","5","6","7","8","9"}

\* null, and the text values the stubs return, as character sequences
Null == <<>>
SampleKey == <<"G","O","M","E","8","0","0","7","0","5",
               "H","D","F","M","L","R","0","9">>
SampleName == <<"G","O","M","E","Z">>
Truthy(v) == v # Null

\* /^[A-Z]{4}\d{6}[HM][A-Z]{5}[A-Z0-9]{2}$/
validateCURPFormat(curp) ==
    /\ Len(curp) = 18
    /\ \A i \in 1..4 : curp[i] \in Upper
    /\ \A i \in 5..10 : curp[i] \in Digit
    /\ curp[11] \in {"H", "M"}
    /\ \A i \in 12..16 : curp[i] \in Upper
    /\ \A i \in 17..18 : curp[i] \in Upper \cup Digit

\* /^[A-Z]{4}\d{10}[A-Z0-9]{2}$/
validateElectorKeyFormat(key) ==
    /\ Len(key) = 16
    /\ \A i \in 1..4 : key[i] \in Upper
    /\ \A i \in 5..14 : key[i] \in Digit
    /\ \A i \in 15..16 : key[i] \in Upper \cup Digit

\* a calendar date 'YYYY-MM-DD' as [y, m, d]; new Date(text) is UTC midnight
\* of that day, kept here as days since 1970-01-01 (proleptic Gregorian)
DaysFromCivil(date) ==
    LET y   == IF date.m <= 2 THEN date.y - 1 ELSE date.y
        era == y \div 400
        yoe == y - era * 400
        mp  == IF date.m > 2 THEN date.m - 3 ELSE date.m + 9
        doy == (153 * mp + 2) \div 5 + date.d - 1
        doe == yoe * 365 + yoe \div 4 - yoe \div 100 + doy
    IN  era * 146097 + doe - 719468

NullDate == [y |-> 0, m |-> 0, d |-> 0]
TruthyDate(v) == v # NullDate
IssueDateText == [y |-> 2019, m |-> 1, d |-> 15]
ExpiryDateText == [y |-> 2029, m |-> 1, d |-> 15]

DaysPerYear == 365
MaxYears == 10
MinYears == 1

\* a faulty alternative: the comparisons read >= 10 and <= 1
checkValidityPeriodExclusive(issueDate, expiryDate) ==
    LET diffDays == expiryDate - issueDate
    IN  IF diffDays >= MaxYears * DaysPerYear THEN [valid |-> FALSE, message |-> "excede 10 anios"]
        ELSE IF diffDays <= MinYears * DaysPerYear THEN [valid |-> FALSE, message |-> "menor a 1 anio"]
        ELSE [valid |-> TRUE, message |-> "valida"]

\* diffYears = (expiry - issue) / (1000*60*60*24*365), in whole days:
\* diffYears > 10 iff diffDays > 3650, diffYears < 1 iff diffDays < 365
checkValidityPeriod(issueDate, expiryDate) ==
    LET diffDays == expiryDate - issueDate
    IN  IF diffDays > MaxYears * DaysPerYear THEN [valid |-> FALSE, message |-> "excede 10 anios"]
        ELSE IF diffDays < MinYears * DaysPerYear THEN [valid |-> FALSE, message |-> "menor a 1 anio"]
        ELSE [valid |-> TRUE, message |-> "valida"]

validateModel(model) == model \in {"D", "E", "F", "G", "H"}

\* aspectRatio >= 1.5 && aspectRatio <= 1.7 on width / height
CorrectAspect(w, h) == 10 * w >= 15 * h /\ 10 * w <= 17 * h

\* confidence 0.8 / 0.2 kept in tenths
analyzeImageContent(img) ==
    LET hasCorrectAspect == CorrectAspect(img.width, img.height)
        hasGoodResolution == img.width >= 600 /\ img.height >= 400
    IN  [looksLikeINE |-> hasCorrectAspect /\ hasGoodResolution,
         confidence |-> IF hasCorrectAspect /\ hasGoodResolution THEN 8 ELSE 2]

\* the record extractTextFromImage resolves to once the image has loaded
extractedText(img) ==
    LET like == analyzeImageContent(img).looksLikeINE
    IN  [curp |-> IF like THEN SampleKey ELSE Null,
         electorKey |-> IF like THEN SampleKey ELSE Null,
         name |-> IF like THEN SampleName ELSE Null,
         issueDate |-> IF like THEN IssueDateText ELSE NullDate,
         expiryDate |-> IF like THEN ExpiryDateText ELSE NullDate,
         model |-> IF like THEN "G" ELSE "null"]

detectOfficialElements(img) == analyzeImageContent(img).looksLikeINE
validateLayout(img) == analyzeImageContent(img).looksLikeINE
detectSecurityPatterns(img) == analyzeImageContent(img).confidence > 7
detectReliefElements(img) == analyzeImageContent(img).confidence > 8
analyzeImageQuality(img) ==
    IF img.width >= 1000 /\ img.height >= 600
    THEN [qualityLevel |-> "Alta", isHighQuality |-> TRUE]
    ELSE IF img.width >= 600 /\ img.height >= 400
    THEN [qualityLevel |-> "Media", isHighQuality |-> TRUE]
    ELSE [qualityLevel |-> "Baja", isHighQuality |-> FALSE]

-----------------------------------------------------------------------------
(* Stage runners: shared shape *)

\* A stage is a sequence of awaited calls; step i names the call (det) and
\* the elements the stage pushes once that call has resolved.  An awaited
\* call either resolves to the value its body computes or rejects; f is the
\* index of the first call that rejects (0: none does).
Step(det, elems) == [det |-> det, elems |-> elems]

RECURSIVE ElemsUpTo(_, _)
ElemsUpTo(steps, n) ==
    IF n = 0 THEN <<>> ELSE ElemsUpTo(steps, n - 1) \o steps[n].elems

CallLog(stage, steps, f) ==
    [i \in 1..(IF f = 0 THEN Len(steps) ELSE f) |->
        Call(stage, steps[i].det, IF i = f THEN "fault" ELSE "ok")]

\* results.passed = results.elements.filter(e => e.passed).length >= k
QuorumPassed(elements, k) == CountPassed(elements) >= k

\* no try/catch in the stage: a rejected call propagates to validateINE
BareStage(id, steps, f, k) ==
    IF f = 0
    THEN [res |-> StageResult(id, QuorumPassed(ElemsUpTo(steps, Len(steps)), k),
                              ElemsUpTo(steps, Len(steps))),
          inv |-> CallLog(id, steps, f), threw |-> FALSE]
    ELSE [res |-> StageResult(id, FALSE, ElemsUpTo(steps, f - 1)),
          inv |-> CallLog(id, steps, f), threw |-> TRUE]

\* a faulty alternative: the stage has no catch of its own
TryStageThrows(id, steps, f, k, errName) == BareStage(id, steps, f, k)

\* try { ...; passed = quorum } catch { elements.push(error element) }
TryStage(id, steps, f, k, errName) ==
    IF f = 0
    THEN [res |-> StageResult(id, QuorumPassed(ElemsUpTo(steps, Len(steps)), k),
                              ElemsUpTo(steps, Len(steps))),
          inv |-> CallLog(id, steps, f), threw |-> FALSE]
    ELSE [res |-> StageResult(id, FALSE,
                              Append(ElemsUpTo(steps, f - 1), Elem(errName, FALSE))),
          inv |-> CallLog(id, steps, f), threw |-> FALSE]

-----------------------------------------------------------------------------
(* Improved validator: stage runners (src/ine-validator.js) *)

\* a faulty alternative: the catch of the format stage records nothing
FormatCatchSilent(elements) == elements

\* the catch of validateDocumentFormat
FormatCatch(elements) == Append(elements, Elem("Formato del documento", FALSE))

\* a faulty alternative: the format stage passes with two of its three
\* checks, like the stages after it
validateDocumentFormatQuorum(e, f) ==
    LET isCorrectAspect == CorrectAspect(e.width, e.height)
        isSufficientSize == e.width >= 500 /\ e.height >= 300
        isImage == StartsWithDataImage(e)
        sized == << Elem("Relacion de aspecto", isCorrectAspect),
                    Elem("Tamano suficiente", isSufficientSize) >>
        all == Append(sized, Elem("Formato de imagen", isImage))
        log == << Call("format", "createImage", IF f = 0 THEN "ok" ELSE "fault") >>
    IN  IF f # 0
        THEN [res |-> [StageResult("format", FALSE, FormatCatch(<<>>))
                          EXCEPT !.documentType = "unknown"],
              inv |-> log, threw |-> FALSE]
        ELSE IF ~IsString(e)
        THEN [res |-> [StageResult("format", FALSE, FormatCatch(sized))
                          EXCEPT !.documentType = "unknown"],
              inv |-> log, threw |-> FALSE]
        ELSE [res |-> [StageResult("format", CountPassed(all) >= 2, all)
                          EXCEPT !.documentType =
                              IF CountPassed(all) >= 2 THEN "potential_ine"
                              ELSE IF isImage THEN "other_image"
                              ELSE "other_document"],
              inv |-> log, threw |-> FALSE]

\* f = 1: createImage rejects
validateDocumentFormat(e, f) ==
    LET isCorrectAspect == CorrectAspect(e.width, e.height)
        isSufficientSize == e.width >= 500 /\ e.height >= 300
        isImage == StartsWithDataImage(e)
        sized == << Elem("Relacion de aspecto", isCorrectAspect),
                    Elem("Tamano suficiente", isSufficientSize) >>
        log == << Call("format", "createImage", IF f = 0 THEN "ok" ELSE "fault") >>
    IN  IF f # 0
        THEN [res |-> [StageResult("format", FALSE, FormatCatch(<<>>))
                          EXCEPT !.documentType = "unknown"],
              inv |-> log, threw |-> FALSE]
        ELSE IF ~IsString(e)
        \* imageData.startsWith is not callable: caught by the stage's catch
        THEN [res |-> [StageResult("format", FALSE, FormatCatch(sized))
                          EXCEPT !.documentType = "unknown"],
              inv |-> log, threw |-> FALSE]
        ELSE [res |-> [StageResult("format",
                                   isImage /\ isCorrectAspect /\ isSufficientSize,
                                   Append(sized, Elem("Formato de imagen", isImage)))
                          EXCEPT !.documentType =
                              IF isImage /\ isCorrectAspect /\ isSufficientSize
                              THEN "potential_ine"
                              ELSE IF isImage THEN "other_image"
                              ELSE "other_document"],
              inv |-> log, threw |-> FALSE]

StructureSteps(e) ==
    LET extractedData == extractedText(e)
    IN << Step("extractTextFromImage",
               << Elem("Formato CURP",
                       IF Truthy(extractedData.curp)
                       THEN validateCURPFormat(extractedData.curp) ELSE FALSE),
                  Elem("Clave de elector",
                       IF Truthy(extractedData.electorKey)
                       THEN validateElectorKeyFormat(extractedData.electorKey)
                       ELSE FALSE) >>),
          Step("detectINEText",
               << Elem("Texto oficial INE", analyzeImageContent(e).looksLikeINE) >>) >>

validateStructure(e, f) ==
    TryStage("structure", StructureSteps(e), f, 2, "Estructura de datos")

DesignSteps(e) ==
    << Step("createImage", <<>>),
       Step("analyzeColors", << Elem("Espectro de colores", e.blue) >>),
       Step("detectOfficialElements",
            << Elem("Elementos graficos oficiales", detectOfficialElements(e)) >>),
       Step("validateLayout",
            << Elem("Distribucion espacial", validateLayout(e)) >>) >>

validateOfficialDesign(e, f) ==
    TryStage("design", DesignSteps(e), f, 2, "Diseno oficial")

SecuritySteps(e) ==
    << Step("createImage", <<>>),
       Step("detectSecurityPatterns",
            << Elem("Patrones de seguridad", detectSecurityPatterns(e)) >>),
       Step("analyzeImageQuality",
            << Elem("Calidad de impresion", analyzeImageQuality(e).isHighQuality) >>),
       Step("detectReliefElements",
            << Elem("Elementos en relieve", detectReliefElements(e)) >>) >>

validateSecurityElements(e, f) ==
    TryStage("security", SecuritySteps(e), f, 2, "Elementos de seguridad")

\* the elements the validity stage derives from the extracted text at time t
ValidityElems(extractedData, t) ==
    IF TruthyDate(extractedData.issueDate) /\ TruthyDate(extractedData.expiryDate)
    THEN LET expiryDate == DaysFromCivil(extractedData.expiryDate)
             issueDate == DaysFromCivil(extractedData.issueDate)
         IN << Elem("No expirada", expiryDate > t),
               Elem("Periodo de validez",
                    checkValidityPeriod(issueDate, expiryDate).valid),
               Elem("Modelo vigente", validateModel(extractedData.model)) >>
    ELSE << Elem("Fechas de vigencia", FALSE) >>

validateValidity(e, f, t) ==
    TryStage("validity",
             << Step("extractTextFromImage", ValidityElems(extractedText(e), t)) >>,
             f, 2, "Vigencia")

-----------------------------------------------------------------------------
(* Legacy validator: stage runners (src/unnamed/part_000) *)

\* extractTextFromImage resolves to the same record for every image
LegacyText ==
    [curp |-> SampleKey, electorKey |-> SampleKey, name |-> SampleName,
     issueDate |-> IssueDateText, expiryDate |-> ExpiryDateText, model |-> "G"]

validateCURP(curp) == validateCURPFormat(curp)
validateElectorKey(key) == Truthy(key) /\ Len(key) >= 18
validateDataConsistency(data) ==
    Truthy(data.curp) /\ Truthy(data.electorKey) /\ Truthy(data.name)

\* no try/catch: the awaited extraction is the first statement
LegacyStructureSteps ==
    LET extractedData == LegacyText
    IN << Step("extractTextFromImage",
               (IF Truthy(extractedData.curp)
                THEN << Elem("CURP", validateCURP(extractedData.curp)) >> ELSE <<>>)
               \o (IF Truthy(extractedData.electorKey)
                   THEN << Elem("Clave de Elector",
                                validateElectorKey(extractedData.electorKey)) >>
                   ELSE <<>>)
               \o << Elem("Consistencia de datos",
                          validateDataConsistency(extractedData)) >>) >>

legacyValidateStructure(f) == BareStage("structure", LegacyStructureSteps, f, 2)

VisibleMethods ==
    << "detectMicrotext", "detectOVD", "detectUVInk", "detectRelief",
       "detectSecurityBackground" >>
VisibleNames ==
    << "Microtexto INE", "Elementos OVD/OVI", "Tintas UV", "Relieve tactil",
       "Fondo de seguridad" >>

SecondLevelMethods ==
    << "detectEdgeMicrotext", "detectFineLinePatterns", "detectRainbowPrint" >>
SecondLevelNames ==
    << "Microtexto en bordes", "Patrones de lineas finas", "Impresion arcoiris" >>

\* for (const element of list) { detected = await this[element.method](...);
\* elements.push({name, passed: detected}) }; detected[i] is what call i
\* resolves to (the stubs draw it with Math.random).  The confidence field,
\* drawn by the loop itself, is carried by LoopStepsDrawn.
LoopSteps(methods, names, detected) ==
    [i \in 1..Len(methods) |-> Step(methods[i], << Elem(names[i], detected[i]) >>)]

validateVisibleElements(detected, f) ==
    BareStage("visible", LoopSteps(VisibleMethods, VisibleNames, detected), f, 3)

validateSecondLevelElements(detected, f) ==
    BareStage("secondLevel",
              LoopSteps(SecondLevelMethods, SecondLevelNames, detected), f, 2)

QRSampleLength == 92

\* qrData && qrData.length > 50
validateQRStructure(qrLen) == qrLen > 0 /\ qrLen > 50

\* decoded: decodeQRCode resolved to the sample text (else null);
\* sig, cons: what validateDigitalSignature / verifyQRConsistency resolve to.
\* The catch records results.error and leaves elements and passed as they are.
validateQRCodes(decoded, sig, cons, f) ==
    LET steps ==
            IF decoded
            THEN << Step("decodeQRCode",
                         << Elem("Estructura QR", validateQRStructure(QRSampleLength)) >>),
                    Step("validateDigitalSignature", << Elem("Firma digital", sig) >>),
                    Step("verifyQRConsistency", << Elem("Consistencia datos", cons) >>) >>
            ELSE << Step("decodeQRCode", <<>>) >>
        g == IF f > Len(steps) THEN 0 ELSE f
        all == ElemsUpTo(steps, Len(steps))
    IN  IF g = 0
        THEN [res |-> StageResult("qr", Len(all) > 0 /\ QuorumPassed(all, 2), all),
              inv |-> CallLog("qr", steps, g), threw |-> FALSE]
        ELSE [res |-> [StageResult("qr", FALSE, ElemsUpTo(steps, g - 1))
                          EXCEPT !.error = TRUE],
              inv |-> CallLog("qr", steps, g), threw |-> FALSE]

\* the catch only logs: elements stay empty and passed stays false
legacyValidateValidity(f, t) ==
    LET extractedData == LegacyText
        steps ==
            << Step("extractTextFromImage",
                    IF TruthyDate(extractedData.issueDate)
                       /\ TruthyDate(extractedData.expiryDate)
                    THEN LET expiryDate == DaysFromCivil(extractedData.expiryDate)
                             issueDate == DaysFromCivil(extractedData.issueDate)
                         IN << Elem("No expirada", expiryDate > t),
                               Elem("Modelo vigente", validateModel(extractedData.model)),
                               Elem("Periodo de validez",
                                    checkValidityPeriod(issueDate, expiryDate).valid) >>
                    ELSE <<>>) >>
    IN  IF f = 0
        THEN [res |-> StageResult("validity",
                                  QuorumPassed(ElemsUpTo(steps, 1), 2),
                                  ElemsUpTo(steps, 1)),
              inv |-> CallLog("validity", steps, f), threw |-> FALSE]
        ELSE [res |-> StageResult("validity", FALSE, <<>>),
              inv |-> CallLog("validity", steps, f), threw |-> FALSE]

-----------------------------------------------------------------------------
(* Score and recommendations *)

StageOrder(v) ==
    IF v = "improved"
    THEN << "format", "structure", "design", "security", "validity" >>
    ELSE << "structure", "visible", "secondLevel", "qr", "validity" >>

\* the weights literal of calculateScore
Weights(v) ==
    IF v = "improved"
    THEN [format |-> 20, structure |-> 25, design |-> 20, security |-> 25,
          validity |-> 10]
    ELSE [structure |-> 25, visible |-> 25, secondLevel |-> 20, qr |-> 20,
          validity |-> 10]

\* a faulty alternative: the guard reads elements.length > 1
RECURSIVE ScoreLoopSkipsSingle(_, _, _)
ScoreLoopSkipsSingle(details, weights, i) ==
    IF i = 0 THEN [totalScore |-> 0, maxScore |-> 0]
    ELSE LET acc == ScoreLoopSkipsSingle(details, weights, i - 1)
             result == details[i]
         IN  [totalScore |->
                  IF Len(result.elements) > 1
                  THEN acc.totalScore
                       + ((CountPassed(result.elements) * 100 * CommonDen)
                              \div Len(result.elements)) * weights[result.id]
                  ELSE acc.totalScore,
              maxScore |-> acc.maxScore + weights[result.id]]

\* a faulty alternative: maxScore += weight sits inside the if
RECURSIVE ScoreLoopDropsEmpty(_, _, _)
ScoreLoopDropsEmpty(details, weights, i) ==
    IF i = 0 THEN [totalScore |-> 0, maxScore |-> 0]
    ELSE LET acc == ScoreLoopDropsEmpty(details, weights, i - 1)
             result == details[i]
         IN  IF Len(result.elements) > 0
             THEN [totalScore |->
                       acc.totalScore
                       + ((CountPassed(result.elements) * 100 * CommonDen)
                              \div Len(result.elements)) * weights[result.id],
                   maxScore |-> acc.maxScore + weights[result.id]]
             ELSE acc

\* The loop of calculateScore over Object.entries(details), after the first
\* i entries.  totalScore is kept exactly, scaled by 100 * CommonDen:
\*   categoryScore = passed / length * 100     (scaled by CommonDen)
\*   totalScore += categoryScore * (weight / 100)
\*   maxScore   += weight
RECURSIVE ScoreLoop(_, _, _)
ScoreLoop(details, weights, i) ==
    IF i = 0 THEN [totalScore |-> 0, maxScore |-> 0]
    ELSE LET acc == ScoreLoop(details, weights, i - 1)
             result == details[i]
             categoryScore ==
                 (CountPassed(result.elements) * 100 * CommonDen)
                     \div Len(result.elements)
         IN  [totalScore |->
                  IF Len(result.elements) > 0
                  THEN acc.totalScore + categoryScore * weights[result.id]
                  ELSE acc.totalScore,
              maxScore |-> acc.maxScore + weights[result.id]]

\* Math.round((totalScore / maxScore) * 100) for the exact quotient
\* totalScore / (CommonDen * maxScore).  The program evaluates it in IEEE-754
\* doubles: off a tie the rounding error cannot change the result; when the
\* exact quotient is k + 1/2 the accumulated error decides between k and
\* k + 1, so both are results the evaluation can produce.
MathRound(total, maxScore) ==
    LET den == CommonDen * maxScore
        up == (2 * total + den) \div (2 * den)
    IN  IF (2 * total + den) % (2 * den) = 0 THEN {up - 1, up} ELSE {up}

RECURSIVE SumAll(_, _)
SumAll(weights, ids) ==
    IF ids = {} THEN 0
    ELSE LET id == CHOOSE x \in ids : TRUE
         IN  weights[id] + SumAll(weights, ids \ {id})

\* a faulty alternative: maxScore is the sum of all configured weights
calculateScoreAllWeights(v, details) ==
    MathRound(ScoreLoop(details, Weights(v), Len(details)).totalScore,
              SumAll(Weights(v), DOMAIN Weights(v)))

\* a faulty alternative: the weighted sum is returned without dividing by
\* maxScore
calculateScoreUnnormalized(v, details) ==
    MathRound(ScoreLoop(details, Weights(v), Len(details)).totalScore, 1)

\* the values calculateScore(details) can return (details is never empty
\* where the program calls it)
calculateScore(v, details) ==
    LET acc == ScoreLoop(details, Weights(v), Len(details))
    IN  MathRound(acc.totalScore, acc.maxScore)

PassThreshold == 70

\* a faulty alternative: the verdict asks for 75 points
IsValidScoreAt75(score) == score >= 75

\* a faulty alternative: strict comparison
IsValidScoreStrict(score) == score > PassThreshold

\* results.isValid = results.score >= 70
IsValidScore(score) == score >= PassThreshold

Has(details, id) == \E i \in 1..Len(details) : details[i].id = id
Get(details, id) == details[CHOOSE i \in 1..Len(details) : details[i].id = id]
Failed(details, id) == Has(details, id) /\ ~Get(details, id).passed

MsgGate == "El documento no tiene el formato adecuado para ser una INE valida"
MsgFormat == "El documento no tiene el formato adecuado de una INE"
MsgStructure == "Verificar la estructura de datos (CURP y clave de elector)"
MsgDesign == "El diseno no coincide con los estandares oficiales del INE"
MsgSecurity == "Faltan elementos de seguridad caracteristicos del INE"
MsgValidity == "Verificar la vigencia de la credencial"
MsgAllPassed == "La credencial paso todas las validaciones principales"
MsgLegacyStructure == "Verificar la estructura de CURP y clave de elector"
MsgLegacyVisible == "Multiples elementos de seguridad visibles no detectados"

improvedRecommendations(details) ==
    IF Failed(details, "format") THEN << MsgFormat >>
    ELSE LET recommendations ==
                 (IF Failed(details, "structure") THEN << MsgStructure >> ELSE <<>>)
                 \o (IF Failed(details, "design") THEN << MsgDesign >> ELSE <<>>)
                 \o (IF Failed(details, "security") THEN << MsgSecurity >> ELSE <<>>)
                 \o (IF Failed(details, "validity") THEN << MsgValidity >> ELSE <<>>)
         IN  IF Len(recommendations) = 0 THEN << MsgAllPassed >>
             ELSE recommendations

legacyRecommendations(details) ==
    LET failedVisible ==
            IF Has(details, "visible")
            THEN Len(Get(details, "visible").elements)
                     - CountPassed(Get(details, "visible").elements)
            ELSE 0
        recommendations ==
            (IF Failed(details, "structure") THEN << MsgLegacyStructure >> ELSE <<>>)
            \o (IF failedVisible > 2 THEN << MsgLegacyVisible >> ELSE <<>>)
            \o (IF Failed(details, "validity") THEN << MsgValidity >> ELSE <<>>)
    IN  IF Len(recommendations) = 0 THEN << MsgAllPassed >> ELSE recommendations

\* a faulty alternative: the legacy messages serve both validators
generateRecommendationsLegacyTable(v, details) == legacyRecommendations(details)

generateRecommendations(v, details) ==
    IF v = "improved" THEN improvedRecommendations(details)
    ELSE legacyRecommendations(details)

-----------------------------------------------------------------------------
(* validateINE *)

NoError == ""
FaultMessage == "detector fault"

\* the results object validateINE starts from
NewReport(v, e) ==
    [isValid |-> FALSE, score |-> 0, details |-> <<>>, recommendations |-> <<>>,
     fileSize |-> extractFileSize(e),
     documentType |-> IF v = "improved" THEN "unknown" ELSE "n/a",
     error |-> NoError]

\* readings of the clock: before the sample expiry date, and on it
ClockReadings ==
    { DaysFromCivil([y |-> 2026, m |-> 11, d |-> 5]),
      DaysFromCivil(ExpiryDateText) }

\* which awaited call of a stage with n calls is the first to reject:
\* evidence that cannot load rejects at the stage's first call, which loads it
FaultChoices(e, n) == IF e.decodable THEN 0..n ELSE {1}

\* the legacy validator never loads the image: only the kind of the evidence
\* reaches its code (through extractFileSize), so one loadable image stands
\* for all of them
EvidenceFor(v) ==
    IF v = "improved" THEN Evidence
    ELSE { e \in Evidence :
             e.decodable => (e.kind = "dataimage" /\ e.width = 640 /\ e.blue) }

\* the constructor: this.validationSteps (ids), and for the improved
\* validator the two patterns and the list of official texts
Constructed(v) ==
    IF v = "improved"
    THEN [validationSteps |-> << "format", "structure", "design", "security",
                                 "validity" >>,
          curpPattern |-> "^[A-Z]{4}[0-9]{6}[HM][A-Z]{5}[A-Z0-9]{2}$",
          electorKeyPattern |-> "^[A-Z]{4}[0-9]{10}[A-Z0-9]{2}$",
          ineTextPatterns |-> << "INSTITUTO NACIONAL ELECTORAL",
                                 "CREDENCIAL PARA VOTAR", "CLAVE DE ELECTOR",
                                 "CURP", "VIGENCIA" >>]
    ELSE [validationSteps |-> << "structure", "visible", "secondLevel",
                                 "nonVisible", "qr", "validity" >>,
          curpPattern |-> "", electorKeyPattern |-> "", ineTextPatterns |-> <<>>]

\* the local state of one call of validateINE
CallRecord(e, t, at, report, ran, inv) ==
    [imageData |-> e, now |-> t, pc |-> at, results |-> report, calls |-> ran,
     invoked |-> inv]

\* no other call was made on the instance
NoCall ==
    CallRecord(Ev("null", FALSE, <<0, 0>>, FALSE, 0), 0, "none",
               NewReport("improved", Ev("null", FALSE, <<0, 0>>, FALSE, 0)),
               <<>>, <<>>)

Init ==
    /\ version \in {"improved", "legacy"}
    /\ instance = Constructed(version)
    /\ other = NoCall
    /\ imageData \in EvidenceFor(version)
    /\ now \in ClockReadings
    /\ pc = "start"
    /\ results = NewReport(version, Ev("null", FALSE, <<0, 0>>, FALSE, 0))
    /\ calls = <<>>
    /\ invoked = <<>>

\* const results = {..., fileSize: this.extractFileSize(imageData)} sits
\* outside the try block: a throw there rejects the promise of validateINE
Begin ==
    /\ pc = "start"
    /\ IF extractFileSizeThrows(imageData)
       THEN pc' = "rejected" /\ UNCHANGED results
       ELSE /\ results' = NewReport(version, imageData)
            /\ pc' = IF version = "improved" THEN "format" ELSE "l_structure"
    /\ UNCHANGED <<instance, other, version, imageData, now, calls, invoked>>

\* a faulty alternative: the catch still scores the stages gathered so far
OnThrowScored(v, report) ==
    IF Len(report.details) = 0 THEN [report EXCEPT !.error = FaultMessage]
    ELSE LET score == CHOOSE x \in calculateScore(v, report.details) : TRUE
         IN  [report EXCEPT !.error = FaultMessage, !.score = score]

\* catch (error) { results.error = error.message } of validateINE
OnThrow(v, report) == [report EXCEPT !.error = FaultMessage]

\* a faulty alternative: the pipeline never stops at the format stage
GateNever(formatResult) == FALSE

\* if (!formatResult.passed) { ...; return results }
GateStops(formatResult) == ~formatResult.passed

\* what validateINE does once the awaited stage runner has settled with r:
\* the catch of validateINE on a throw; otherwise results.details[id] = r.res
\* and, after the last stage, the score, the verdict and the recommendations
Continue(runner, r, nextpc) ==
    /\ calls' = Append(calls, runner)
    /\ invoked' = invoked \o r.inv
    /\ IF r.threw
       THEN /\ results' = OnThrow(version, results)
            /\ pc' = "done"
       ELSE LET details == Append(results.details, r.res)
            IN  IF nextpc = "done"
                THEN /\ \E score \in calculateScore(version, details) :
                            results' = [results EXCEPT
                                !.details = details,
                                !.score = score,
                                !.isValid = IsValidScore(score),
                                !.recommendations =
                                    generateRecommendations(version, details)]
                     /\ pc' = "done"
                ELSE /\ results' = [results EXCEPT !.details = details]
                     /\ pc' = nextpc
    /\ UNCHANGED <<instance, other, version, imageData, now>>

\* improved validateINE, lines 38-49: the format stage and its gate
StepFormat ==
    /\ pc = "format"
    /\ \E f \in FaultChoices(imageData, 1) :
        LET r == validateDocumentFormat(imageData, f)
        IN  /\ calls' = Append(calls, "validateDocumentFormat")
            /\ invoked' = invoked \o r.inv
            /\ IF GateStops(r.res)
               THEN /\ results' = [results EXCEPT
                           !.details = Append(@, r.res),
                           !.documentType = r.res.documentType,
                           !.score = 0,
                           !.isValid = FALSE,
                           !.recommendations = << MsgGate >>]
                    /\ pc' = "done"
               ELSE /\ results' = [results EXCEPT
                           !.details = Append(@, r.res),
                           !.documentType = r.res.documentType]
                    /\ pc' = "structure"
    /\ UNCHANGED <<instance, other, version, imageData, now>>

StepStructure ==
    /\ pc = "structure"
    /\ \E f \in FaultChoices(imageData, 2) :
        Continue("validateStructure", validateStructure(imageData, f), "design")

StepDesign ==
    /\ pc = "design"
    /\ \E f \in FaultChoices(imageData, 4) :
        Continue("validateOfficialDesign", validateOfficialDesign(imageData, f),
                 "security")

StepSecurity ==
    /\ pc = "security"
    /\ \E f \in FaultChoices(imageData, 4) :
        Continue("validateSecurityElements",
                 validateSecurityElements(imageData, f), "validity")

StepValidity ==
    /\ pc = "validity"
    /\ \E f \in FaultChoices(imageData, 1) :
        Continue("validateValidity", validateValidity(imageData, f, now), "done")

\* legacy validateINE
StepLegacyStructure ==
    /\ pc = "l_structure"
    /\ \E f \in 0..1 :
        Continue("validateStructure", legacyValidateStructure(f), "visible")

StepVisible ==
    /\ pc = "visible"
    /\ \E detected \in [1..Len(VisibleMethods) -> BOOLEAN],
          f \in 0..Len(VisibleMethods) :
        Continue("validateVisibleElements",
                 validateVisibleElements(detected, f), "secondLevel")

StepSecondLevel ==
    /\ pc = "secondLevel"
    /\ \E detected \in [1..Len(SecondLevelMethods) -> BOOLEAN],
          f \in 0..Len(SecondLevelMethods) :
        Continue("validateSecondLevelElements",
                 validateSecondLevelElements(detected, f), "qr")

StepQR ==
    /\ pc = "qr"
    /\ \E decoded \in BOOLEAN, sig \in BOOLEAN, cons \in BOOLEAN, f \in 0..3 :
        Continue("validateQRCodes", validateQRCodes(decoded, sig, cons, f),
                 "l_validity")

StepLegacyValidity ==
    /\ pc = "l_validity"
    /\ \E f \in 0..1 :
        Continue("validateValidity", legacyValidateValidity(f, now), "done")

Next ==
    \/ Begin
    \/ StepFormat
    \/ StepStructure
    \/ StepDesign
    \/ StepSecurity
    \/ StepValidity
    \/ StepLegacyStructure
    \/ StepVisible
    \/ StepSecondLevel
    \/ StepQR
    \/ StepLegacyValidity

Spec == Init /\ [][Next]_vars

-----------------------------------------------------------------------------
(* Properties of validateINE *)

Returned == pc = "done"
Details == results.details
Ids(details) == [i \in 1..Len(details) |-> details[i].id]
FormatFailed == Len(Details) >= 1 /\ Details[1].id = "format" /\ ~Details[1].passed
FormatPassed == Len(Details) >= 1 /\ Details[1].id = "format" /\ Details[1].passed
GatedReport ==
    /\ Ids(Details) = << "format" >>
    /\ results.score = 0
    /\ results.isValid = FALSE
    /\ Len(results.recommendations) = 1
Faulted(stage, det) ==
    \E i \in 1..Len(invoked) : invoked[i] = Call(stage, det, "fault")

\* C1: improved validator: once the format stage result has passed = false,
\* validateINE has returned a report whose details hold the format entry
\* alone, with score 0, isValid false and exactly one recommendation, and
\* the format runner is the only stage runner that was invoked in the run.
C1_FormatGate ==
    (version = "improved" /\ FormatFailed) =>
        /\ Returned
        /\ GatedReport
        /\ calls = << "validateDocumentFormat" >>

\* a loadable image of the wrong shape was stopped at the gate
C1_Witness ==
    /\ version = "improved" /\ Returned /\ FormatFailed
    /\ imageData.decodable /\ imageData.kind = "dataimage"
    /\ Len(Details[1].elements) = 3

\* C2: validateINE never rejects: whatever the evidence and whatever fault a
\* detector or stage raises, the call completes by returning a report.
C2_NeverRejects == pc # "rejected"

\* C3: in every report validateINE returns, isValid holds exactly when
\* score >= 70 (normal path, gate path, caught-fault path).
C3_VerdictIffThreshold ==
    Returned => (results.isValid <=> results.score >= 70)

\* a returned report scores exactly the threshold and is valid
C3_Witness == Returned /\ results.score = 70 /\ results.isValid

\* C4: a returned report whose error field is set has isValid = false and
\* score = 0, whichever stage raised the fault.
C4_ErrorMeansZero ==
    (Returned /\ results.error # NoError) =>
        (results.isValid = FALSE /\ results.score = 0)

\* a detector of the third legacy stage rejected after two stages completed
C4_Witness ==
    /\ Returned /\ results.error # NoError
    /\ Len(Details) = 2
    /\ \E i \in 1..Len(invoked) :
           invoked[i].stage = "secondLevel" /\ invoked[i].out = "fault"

ImprovedRunners ==
    << "validateDocumentFormat", "validateStructure", "validateOfficialDesign",
       "validateSecurityElements", "validateValidity" >>

\* C5: improved validator: when the format stage passes, the returned report
\* comes from a run that invoked structure, design, security and validity
\* once each in that order, and details hold the five stage results in
\* execution order, also when stages fail or a detector faults.
C5_AllStagesRun ==
    (version = "improved" /\ Returned /\ FormatPassed) =>
        /\ calls = ImprovedRunners
        /\ Ids(Details) = StageOrder("improved")

\* the run completed although a design detector rejected and the structure
\* stage failed
C5_Witness ==
    /\ version = "improved" /\ Returned /\ FormatPassed
    /\ Faulted("design", "detectOfficialElements")
    /\ Failed(Details, "structure")

\* the quorum k of the stage runners that apply one
QuorumOf(v, id) ==
    IF v = "improved"
    THEN (IF id \in {"structure", "design", "security", "validity"} THEN 2 ELSE 0)
    ELSE (IF id = "visible" THEN 3 ELSE IF id = "secondLevel" THEN 2 ELSE 0)

\* C6: quorum law: every stage result of a quorum stage runner has
\* passed = true exactly when at least k of its recorded elements passed,
\* also when a detector faulted part-way through the stage.
C6_QuorumLaw ==
    \A i \in 1..Len(Details) :
        QuorumOf(version, Details[i].id) > 0 =>
            (Details[i].passed <=>
                CountPassed(Details[i].elements) >= QuorumOf(version, Details[i].id))

\* the awaited calls configured for a stage
StageCalls(v, id) ==
    IF v = "improved"
    THEN CASE id = "format" -> {"createImage"}
           [] id = "structure" -> {"extractTextFromImage", "detectINEText"}
           [] id = "design" -> {"createImage", "analyzeColors",
                                "detectOfficialElements", "validateLayout"}
           [] id = "security" -> {"createImage", "detectSecurityPatterns",
                                  "analyzeImageQuality", "detectReliefElements"}
           [] OTHER -> {"extractTextFromImage"}
    ELSE CASE id = "visible" -> {VisibleMethods[i] : i \in 1..Len(VisibleMethods)}
           [] id = "secondLevel" ->
                  {SecondLevelMethods[i] : i \in 1..Len(SecondLevelMethods)}
           [] id = "qr" -> {"decodeQRCode"}
           [] OTHER -> {"extractTextFromImage"}

\* C7: a detector that faults inside a stage does not abort the stage: the
\* stage result is recorded and every other detector configured for the
\* stage has been invoked as well.
C7_FaultDoesNotAbort ==
    \A i \in 1..Len(invoked) :
        invoked[i].out = "fault" =>
            /\ Has(Details, invoked[i].stage)
            /\ \A d \in StageCalls(version, invoked[i].stage) :
                   \E j \in 1..Len(invoked) :
                       invoked[j].stage = invoked[i].stage /\ invoked[j].det = d

\* C8: improved validator: when createImage rejects in the format stage,
\* validateDocumentFormat returns passed = false with a failing element and
\* validateINE returns the gated report with no error set.
C8_UndecodableIsGated ==
    (version = "improved" /\ Faulted("format", "createImage")) =>
        /\ Returned
        /\ GatedReport
        /\ ~Details[1].passed
        /\ \E i \in 1..Len(Details[1].elements) : ~Details[1].elements[i].passed
        /\ results.error = NoError

\* a data:image/ URL whose bytes cannot be decoded was gated
C8_Witness ==
    /\ version = "improved" /\ Returned
    /\ imageData.kind = "dataimage" /\ ~imageData.decodable
    /\ Faulted("format", "createImage")

-----------------------------------------------------------------------------
(* calculateScore on its own: every non-empty selection of stages, each with *)
(* up to MaxElems elements of which any number passed                        *)

Absent == << 0, 1 >>
Shapes == { << n, k >> : n \in 0..MaxElems, k \in 0..MaxElems }
ShapeChoices == { sh \in Shapes : sh[2] <= sh[1] } \cup { Absent }

ShapeElems(sh) == [i \in 1..sh[1] |-> Elem("check", i <= sh[2])]

RECURSIVE BuildDetails(_, _, _)
BuildDetails(v, sel, i) ==
    IF i = 0 THEN <<>>
    ELSE BuildDetails(v, sel, i - 1)
         \o (IF sel[i] = Absent THEN <<>>
             ELSE << StageResult(StageOrder(v)[i],
                                 QuorumPassed(ShapeElems(sel[i]), 2),
                                 ShapeElems(sel[i])) >>)

DetailInputs(v) ==
    { BuildDetails(v, sel, Len(StageOrder(v))) :
        sel \in { c \in [1..Len(StageOrder(v)) -> ShapeChoices] :
                    \E i \in 1..Len(StageOrder(v)) : c[i] # Absent } }

ScoreInit ==
    /\ version \in {"improved", "legacy"}
    /\ instance = Constructed(version)
    /\ other = NoCall
    /\ imageData = Ev("null", FALSE, <<0, 0>>, FALSE, 0)
    /\ now = DaysFromCivil(ExpiryDateText)
    /\ pc = "details"
    /\ \E d \in DetailInputs(version) :
           results = [NewReport(version, imageData) EXCEPT !.details = d]
    /\ calls = <<>>
    /\ invoked = <<>>

ApplyCalculateScore ==
    /\ pc = "details"
    /\ \E score \in calculateScore(version, results.details) :
           results' = [results EXCEPT !.score = score]
    /\ pc' = "scored"
    /\ UNCHANGED <<instance, other, version, imageData, now, calls, invoked>>

ScoreNext == ApplyCalculateScore

ScoreSpec == ScoreInit /\ [][ScoreNext]_vars

Scored == pc = "scored"

\* sum of g[i] over the indices in S
RECURSIVE SumOver(_, _)
SumOver(g, S) ==
    IF S = {} THEN 0
    ELSE LET i == CHOOSE x \in S : TRUE IN g[i] + SumOver(g, S \ {i})

\* for the stages present in details: the sum of their weights, and the sum
\* of weight * passed / length * 100 scaled by CommonDen
ExecutedWeight(v, details) ==
    SumOver([i \in 1..Len(details) |-> Weights(v)[details[i].id]],
            1..Len(details))
ExecutedPoints(v, details) ==
    SumOver([i \in 1..Len(details) |->
                IF Len(details[i].elements) = 0 THEN 0
                ELSE (Weights(v)[details[i].id] * CountPassed(details[i].elements)
                        * 100 * CommonDen) \div Len(details[i].elements)],
            1..Len(details))

Abs(x) == IF x < 0 THEN 0 - x ELSE x

\* the weights literal without the stages that did not execute
ExecutedWeightsOnly(v, details) ==
    [id \in { details[i].id : i \in 1..Len(details) } |-> Weights(v)[id]]

\* C9: re-normalization: the score is the quotient
\*   (sum over executed stages of stagePct * weight)
\*     / (sum over executed stages of weight)
\* rounded to a nearest integer, and it is what the same loop returns when
\* the stages that did not execute are not configured at all.
C9_Renormalized ==
    Scored =>
        /\ 2 * Abs(results.score * ExecutedWeight(version, Details) * CommonDen
                   - ExecutedPoints(version, Details))
              <= ExecutedWeight(version, Details) * CommonDen
        /\ results.score \in
              LET acc == ScoreLoop(Details, ExecutedWeightsOnly(version, Details),
                                   Len(Details))
              IN  MathRound(acc.totalScore, acc.maxScore)

\* one stage of weight 25 executed alone with half of its elements passing
C9_Witness ==
    /\ Scored /\ Len(Details) = 1
    /\ ExecutedWeight(version, Details) = 25
    /\ results.score = 50

AllElementsPassed(details) ==
    \A i \in 1..Len(details) :
        /\ Len(details[i].elements) >= 1
        /\ CountPassed(details[i].elements) = Len(details[i].elements)

\* C10: when every executed stage has at least one element and all of its
\* elements passed, calculateScore returns exactly 100.
C10_AllPassIs100 ==
    (Scored /\ Len(Details) >= 1 /\ AllElementsPassed(Details)) =>
        results.score = 100

\* two of the five stages executed, with one and two passing elements
C10_Witness ==
    /\ Scored /\ Len(Details) = 2 /\ AllElementsPassed(Details)
    /\ Len(Details[1].elements) # Len(Details[2].elements)
    /\ results.score = 100

NoElementPassed(details) ==
    \A i \in 1..Len(details) :
        \A j \in 1..Len(details[i].elements) : ~details[i].elements[j].passed

\* C11: for every non-empty selection of executed stages in which no element
\* of any stage passed, calculateScore returns exactly 0.
C11_AllFailIsZero ==
    (Scored /\ Len(Details) >= 1 /\ NoElementPassed(Details)) =>
        results.score = 0

\* three stages executed, one of them with two failing elements
C11_Witness ==
    /\ Scored /\ Len(Details) = 3 /\ NoElementPassed(Details)
    /\ \E i \in 1..Len(Details) : Len(Details[i].elements) = 2
    /\ results.score = 0

-----------------------------------------------------------------------------
(* Properties of the reports of validateINE: score and recommendations *)

\* the report came from the normal path: no fault reached the catch of
\* validateINE and the run was not stopped at the format gate
Completed ==
    /\ Returned /\ results.error = NoError
    /\ Len(Details) = Len(StageOrder(version))

EmptyStages(details) ==
    { i \in 1..Len(details) : Len(details[i].elements) = 0 }

\* C12: the score of every returned report is an integer in 0..100, for
\* every combination of stage outcomes, stages with no elements and stages
\* with an error element included.
C12_ScoreInRange == Returned => results.score \in 0..100

\* a legacy report whose QR stage faulted before recording any element
C12_Witness ==
    /\ version = "legacy" /\ Completed
    /\ Has(Details, "qr") /\ Get(Details, "qr").error
    /\ Len(Get(Details, "qr").elements) = 0
    /\ results.score > 0 /\ results.score < 100

\* C14: a stage that executed and recorded no element adds nothing to the
\* numerator of the score while its weight stays in the denominator, and
\* its passed flag is false.
C14_EmptyStageScoresZero ==
    (Completed /\ EmptyStages(Details) # {}) =>
        /\ \A i \in EmptyStages(Details) : ~Details[i].passed
        /\ 2 * Abs(results.score * SumAll(Weights(version), DOMAIN Weights(version))
                       * CommonDen
                   - SumOver([i \in 1..Len(Details) |->
                                 IF i \in EmptyStages(Details) THEN 0
                                 ELSE (Weights(version)[Details[i].id]
                                         * CountPassed(Details[i].elements)
                                         * 100 * CommonDen)
                                      \div Len(Details[i].elements)],
                             1..Len(Details)))
              <= SumAll(Weights(version), DOMAIN Weights(version)) * CommonDen
        /\ results.score
              <= 100 - SumOver([i \in 1..Len(Details) |->
                                   IF i \in EmptyStages(Details)
                                   THEN Weights(version)[Details[i].id] ELSE 0],
                               1..Len(Details))

\* no QR code was decoded, the first three stages passed every element and
\* the validity stage two of three: round(76.67) = 77
C14_Witness ==
    /\ version = "legacy" /\ Completed
    /\ EmptyStages(Details) = {4}
    /\ ~Get(Details, "qr").error
    /\ results.score = 77

FailedStages(details) == { i \in 1..Len(details) : ~details[i].passed }

\* C15: the recommendations hold exactly one message per executed stage
\* whose passed is false and none for a passing stage: as many messages as
\* failing stages, no message twice, and no affirmative message among them.
C15_OneMessagePerFailedStage ==
    (Returned /\ results.error = NoError /\ FailedStages(Details) # {}) =>
        /\ Len(results.recommendations) = Cardinality(FailedStages(Details))
        /\ \A i, j \in 1..Len(results.recommendations) :
               i # j => results.recommendations[i] # results.recommendations[j]
        /\ \A i \in 1..Len(results.recommendations) :
               results.recommendations[i] # MsgAllPassed

\* C16: the recommendations are the single affirmative message exactly when
\* every executed stage of the report passed.
C16_AffirmativeIffAllPassed ==
    (Returned /\ results.error = NoError) =>
        (results.recommendations = << MsgAllPassed >>
            <=> FailedStages(Details) = {})

-----------------------------------------------------------------------------
(* The closing statements of the improved validateINE on their own: the     *)
(* format stage passed the gate, the other four stages returned any result  *)
(* with 1..MaxChecks elements                                               *)

CheckShapes ==
    { sh \in { << n, k >> : n \in 1..MaxChecks, k \in 0..MaxChecks } :
        sh[2] <= sh[1] }

\* the format stage passes only with every element passing; the other
\* stages pass with a quorum of 2
ReportDetails ==
    { [i \in 1..5 |->
         StageResult(StageOrder("improved")[i],
                     IF i = 1 THEN TRUE ELSE QuorumPassed(ShapeElems(sel[i]), 2),
                     ShapeElems(sel[i]))] :
        sel \in { c \in [1..5 -> CheckShapes] : c[1][2] = c[1][1] } }

ReportInit ==
    /\ version = "improved"
    /\ instance = Constructed(version)
    /\ other = NoCall
    /\ imageData = Ev("dataimage", TRUE, << 640, 400 >>, TRUE, 1000)
    /\ now = DaysFromCivil(ExpiryDateText)
    /\ pc = "scoring"
    /\ \E d \in ReportDetails :
           results = [NewReport(version, imageData) EXCEPT
                          !.details = d, !.documentType = "potential_ine"]
    /\ calls = ImprovedRunners
    /\ invoked = <<>>

\* results.score = calculateScore(details); results.isValid = score >= 70;
\* results.recommendations = generateRecommendations(details)
CloseReport ==
    /\ pc = "scoring"
    /\ \E score \in calculateScore(version, results.details) :
           results' = [results EXCEPT
                           !.score = score,
                           !.isValid = IsValidScore(score),
                           !.recommendations =
                               generateRecommendations(version, results.details)]
    /\ pc' = "reported"
    /\ UNCHANGED <<instance, other, version, imageData, now, calls, invoked>>

ReportNext == CloseReport

ReportSpec == ReportInit /\ [][ReportNext]_vars

Reported == pc = "reported"

AllOf(stage) ==
    /\ stage.passed
    /\ CountPassed(stage.elements) = Len(stage.elements)

\* format 3/3, structure 1/3 (failed), design, security and validity with
\* every element passing
Scenario13(details) ==
    /\ Len(Get(details, "format").elements) = 3 /\ AllOf(Get(details, "format"))
    /\ Len(Get(details, "structure").elements) = 3
    /\ CountPassed(Get(details, "structure").elements) = 1
    /\ ~Get(details, "structure").passed
    /\ AllOf(Get(details, "design"))
    /\ AllOf(Get(details, "security"))
    /\ AllOf(Get(details, "validity"))

\* C13: with the weights 20/25/20/25/10, format 3/3, structure 1/3 and the
\* three remaining stages passing every element, the report has score 83,
\* isValid true and the structure message as its only recommendation.
C13_Scenario ==
    (Reported /\ Scenario13(Details)) =>
        /\ results.score = 83
        /\ results.isValid
        /\ results.recommendations = << MsgStructure >>

\* the scenario with three elements in every stage
C13_Witness ==
    /\ Reported /\ Scenario13(Details)
    /\ \A i \in 1..Len(Details) : Len(Details[i].elements) = 3
    /\ results.score = 83 /\ results.isValid

-----------------------------------------------------------------------------
(* Progress of validateINE when an awaited call may stay pending *)

\* every stage runner of the improved validator first awaits an image load:
\* createImage itself, or extractTextFromImage, which awaits createImage
LoadingStages == {"format", "structure", "design", "security", "validity"}

RunnerOf(stage) ==
    CASE stage = "format" -> "validateDocumentFormat"
      [] stage = "structure" -> "validateStructure"
      [] stage = "design" -> "validateOfficialDesign"
      [] stage = "security" -> "validateSecurityElements"
      [] stage = "validity" -> "validateValidity"

FirstAwaited(stage) ==
    IF stage \in {"structure", "validity"} THEN "extractTextFromImage"
    ELSE "createImage"

\* createImage returns a promise settled only by img.onload / img.onerror;
\* nothing else settles it: while neither event fires the await in the stage
\* runner, and with it the await in validateINE, does not resume
Hang ==
    /\ version = "improved"
    /\ pc \in LoadingStages
    /\ calls' = Append(calls, RunnerOf(pc))
    /\ invoked' = Append(invoked, Call(pc, FirstAwaited(pc), "pending"))
    /\ pc' = "blocked"
    /\ UNCHANGED <<instance, other, version, imageData, now, results>>

LiveNext == Next \/ Hang

\* the event loop runs the continuation of every settled promise
LiveSpec == Init /\ [][LiveNext]_vars /\ WF_vars(Next)

Blocked == pc = "blocked"

\* C19: a detector call that never completes does not block the run: once
\* an awaited image load stays pending, validateINE still eventually returns
\* a report.
C19_PendingStillReturns == Blocked ~> Returned

-----------------------------------------------------------------------------
(* Two calls of the improved validateINE on one instance.  The event loop   *)
(* runs one call at a time and may pass control to the other call at every  *)
(* await.  Detectors do not reject in these runs, except the image load of  *)
(* evidence that cannot be loaded.                                          *)

ConcEvidence ==
    { Ev("dataimage", TRUE, << 640, 400 >>, TRUE, 8),
      Ev("dataimage", TRUE, << 1024, 640 >>, FALSE, 8),
      Ev("dataimage", FALSE, << 0, 0 >>, FALSE, 8) }

\* the call the event loop is running
Running == CallRecord(imageData, now, pc, results, calls, invoked)

\* a faulty alternative: the results object lives on the instance, so the
\* call that resumes finds the one the other call was filling
ResumeSharedResults(parked, running) ==
    [parked EXCEPT !.results = running.results]

\* const results = {...} and the stage runners' const results are locals of
\* each call: the call that resumes finds its own state as it left it
Resume(parked, running) == parked

ConcInit ==
    /\ version = "improved"
    /\ instance = Constructed(version)
    /\ imageData \in ConcEvidence
    /\ now \in ClockReadings
    /\ pc = "start"
    /\ results = NewReport(version, Ev("null", FALSE, <<0, 0>>, FALSE, 0))
    /\ calls = <<>>
    /\ invoked = <<>>
    /\ other \in { CallRecord(e, t, "start",
                              NewReport(version, Ev("null", FALSE, <<0, 0>>, FALSE, 0)),
                              <<>>, <<>>) :
                     e \in ConcEvidence, t \in ClockReadings }

\* the running call reaches an await (or returns) and the event loop runs
\* the continuation of the other call
Switch ==
    /\ other.pc # "none"
    /\ LET mine == Resume(other, Running)
       IN  /\ imageData' = mine.imageData
           /\ now' = mine.now
           /\ pc' = mine.pc
           /\ results' = mine.results
           /\ calls' = mine.calls
           /\ invoked' = mine.invoked
    /\ other' = Running
    /\ UNCHANGED <<version, instance>>

\* no awaited call rejected, unless the evidence cannot be loaded
Quiet ==
    \A i \in 1..Len(invoked) : invoked[i].out = "fault" => ~imageData.decodable

ConcStep ==
    /\ \/ Begin
       \/ StepFormat
       \/ StepStructure
       \/ StepDesign
       \/ StepSecurity
       \/ StepValidity
    /\ Quiet'

ConcNext == ConcStep \/ Switch

ConcSpec == ConcInit /\ [][ConcNext]_vars

\* index of the awaited call of the stage that rejected (0: none)
FaultAt(stage, inv) ==
    LET sub == SelectSeq(inv, LAMBDA c : c.stage = stage)
    IN  IF \E i \in 1..Len(sub) : sub[i].out = "fault"
        THEN CHOOSE i \in 1..Len(sub) : sub[i].out = "fault"
        ELSE 0

\* the reports the improved validateINE returns when it runs alone on
\* evidence e at time t and its awaited calls settle as logged in inv
AloneReports(e, t, inv) ==
    LET fmt == validateDocumentFormat(e, FaultAt("format", inv)).res
        base == [NewReport("improved", e) EXCEPT
                     !.documentType = fmt.documentType]
        details ==
            << fmt,
               validateStructure(e, FaultAt("structure", inv)).res,
               validateOfficialDesign(e, FaultAt("design", inv)).res,
               validateSecurityElements(e, FaultAt("security", inv)).res,
               validateValidity(e, FaultAt("validity", inv), t).res >>
    IN  IF ~fmt.passed
        THEN { [base EXCEPT !.details = << fmt >>,
                            !.recommendations = << MsgGate >>] }
        ELSE { [base EXCEPT !.details = details,
                            !.score = score,
                            !.isValid = score >= 70,
                            !.recommendations =
                                generateRecommendations("improved", details)] :
                 score \in calculateScore("improved", details) }

ReturnedAlone(call) ==
    call.pc = "done" =>
        call.results \in AloneReports(call.imageData, call.now, call.invoked)

\* C20: two calls of validateINE interleaved on one instance share no
\* mutable state: each returns the report it returns when run alone on its
\* own evidence, and the fields set by the constructor are never modified.
C20_CallsAreIsolated ==
    /\ instance = Constructed(version)
    /\ ReturnedAlone(Running)
    /\ ReturnedAlone(other)

\* one call has returned its five-stage report while the other call, on
\* different evidence, is suspended in the middle of its pipeline
C20_Witness ==
    /\ pc = "done" /\ Len(Details) = 5
    /\ other.pc = "security" /\ Len(other.results.details) = 3
    /\ other.imageData # imageData
    /\ results.details[3] # other.results.details[3]

PassedOf(details) == [i \in 1..Len(details) |-> details[i].passed]

\* C18: two calls of validateINE with the same evidence yield the same
\* isValid and the same passed value for every stage, whatever the moment
\* of each call.
C18_SameEvidenceSameVerdict ==
    (pc = "done" /\ other.pc = "done" /\ imageData = other.imageData) =>
        /\ results.isValid = other.results.isValid
        /\ PassedOf(Details) = PassedOf(other.results.details)

-----------------------------------------------------------------------------
(* The legacy loop stages run twice against detectors that resolve to the   *)
(* same values both times.  Each element carries the confidence the stage   *)
(* computes from its own Math.random() draw.                                *)

\* values of Math.random(), in tenths: 0.0 and 0.5
RandomDraws == {0, 5}

\* confidence: detected ? Math.random() * span + (100 - span)
\*                      : Math.random() * span      (kept in tenths)
LoopStepsDrawn(methods, names, detected, draws, span) ==
    [i \in 1..Len(methods) |->
        Step(methods[i],
             << [name |-> names[i], passed |-> detected[i],
                 confidence |-> IF detected[i]
                                THEN draws[i] * span + 10 * (100 - span)
                                ELSE draws[i] * span] >>)]

validateVisibleElementsDrawn(detected, draws) ==
    BareStage("visible",
              LoopStepsDrawn(VisibleMethods, VisibleNames, detected, draws, 30),
              0, 3)

validateSecondLevelElementsDrawn(detected, draws) ==
    BareStage("secondLevel",
              LoopStepsDrawn(SecondLevelMethods, SecondLevelNames, detected,
                             draws, 25),
              0, 2)

PassedOfElements(elements) ==
    [i \in 1..Len(elements) |-> elements[i].passed]

RepeatInit ==
    /\ version = "legacy"
    /\ instance = Constructed(version)
    /\ imageData = Ev("dataimage", TRUE, << 640, 400 >>, TRUE, 8)
    /\ now = DaysFromCivil(ExpiryDateText)
    /\ pc \in {"visible", "secondLevel"}
    /\ results = NewReport(version, imageData)
    /\ calls = <<>>
    /\ invoked = <<>>
    /\ other = NoCall

\* what the detectors resolved to in the earlier run of the stage
EarlierOutcomes == PassedOfElements(other.results.details[1].elements)

\* the detectors resolve to detected; in the second run to the same values
\* as in the first
SameDetectors(detected) == other.pc = "ran" => detected = EarlierOutcomes

StoreStage(runner, r) ==
    /\ results' = [results EXCEPT !.details = << r.res >>]
    /\ calls' = << runner >>
    /\ invoked' = r.inv
    /\ pc' = "ran"
    /\ UNCHANGED <<instance, other, version, imageData, now>>

RunVisible ==
    /\ pc = "visible"
    /\ \E detected \in [1..Len(VisibleMethods) -> BOOLEAN],
          draws \in [1..Len(VisibleMethods) -> RandomDraws] :
        /\ SameDetectors(detected)
        /\ StoreStage("validateVisibleElements",
                      validateVisibleElementsDrawn(detected, draws))

RunSecondLevel ==
    /\ pc = "secondLevel"
    /\ \E detected \in [1..Len(SecondLevelMethods) -> BOOLEAN],
          draws \in [1..Len(SecondLevelMethods) -> RandomDraws] :
        /\ SameDetectors(detected)
        /\ StoreStage("validateSecondLevelElements",
                      validateSecondLevelElementsDrawn(detected, draws))

\* the same stage is run a second time on the same evidence
RunAgain ==
    /\ pc = "ran"
    /\ other.pc = "none"
    /\ other' = Running
    /\ pc' = Details[1].id
    /\ results' = NewReport(version, imageData)
    /\ calls' = <<>>
    /\ invoked' = <<>>
    /\ UNCHANGED <<instance, version, imageData, now>>

RepeatNext == RunVisible \/ RunSecondLevel \/ RunAgain

RepeatSpec == RepeatInit /\ [][RepeatNext]_vars

\* C17: two runs in which every detector returns the same pass/fail outcome
\* produce identical stage results, the confidence of every element
\* included: the pipeline adds no randomness of its own.
C17_SameOutcomesSameReport ==
    (/\ pc = "ran" /\ other.pc = "ran"
     /\ PassedOfElements(Details[1].elements) = EarlierOutcomes) =>
        results.details = other.results.details

-----------------------------------------------------------------------------
(* Properties of the improved validateINE: verdict and format stage *)

AllStagesPassed(details) == \A i \in 1..Len(details) : details[i].passed

\* C21: improved validator: a returned report whose five stages all have
\* passed = true carries the single affirmative recommendation, a score of
\* at least 70 and isValid = true.
C21_AllPassedMeansValid ==
    (/\ version = "improved" /\ Returned
     /\ Len(Details) = 5 /\ AllStagesPassed(Details)) =>
        /\ results.recommendations = << MsgAllPassed >>
        /\ results.score >= 70
        /\ results.isValid

\* every stage after the format stage passed with two of its three elements
C21_Witness ==
    /\ version = "improved" /\ Returned
    /\ Len(Details) = 5 /\ AllStagesPassed(Details)
    /\ \A i \in 2..5 :
           Len(Details[i].elements) = 3 /\ CountPassed(Details[i].elements) = 2
    /\ results.score = 73 /\ results.isValid

\* the image of the evidence loaded in the format stage
FormatLoaded ==
    \E i \in 1..Len(invoked) : invoked[i] = Call("format", "createImage", "ok")

\* the three checks of the format stage, read off the evidence
IsImageDataURL == imageData.kind = "dataimage"
AspectInRange ==
    /\ imageData.height > 0
    /\ 10 * imageData.width >= 15 * imageData.height
    /\ 10 * imageData.width <= 17 * imageData.height
SizeSufficient == imageData.width >= 500 /\ imageData.height >= 300

\* C22: improved validator: the format stage result has passed = true
\* exactly when the image loaded and all three checks (data:image/ URL,
\* aspect ratio in 1.5..1.7, at least 500x300) pass, and the documentType of
\* the report is 'potential_ine' exactly when the format stage passed,
\* otherwise 'other_image', 'other_document' or 'unknown'.
C22_FormatUnanimity ==
    (version = "improved" /\ Has(Details, "format")) =>
        /\ Get(Details, "format").passed
              <=> (FormatLoaded /\ IsImageDataURL /\ AspectInRange
                   /\ SizeSufficient)
        /\ results.documentType = "potential_ine"
              <=> Get(Details, "format").passed
        /\ ~Get(Details, "format").passed =>
              results.documentType
                  \in {"other_image", "other_document", "unknown"}

\* a loadable 640x400 image behind a URL that is not a data URL: two of the
\* three checks pass and the run stops at the gate
C22_Witness ==
    /\ version = "improved" /\ Returned /\ FormatFailed
    /\ Len(Details[1].elements) = 3
    /\ CountPassed(Details[1].elements) = 2
    /\ results.documentType = "other_document"

-----------------------------------------------------------------------------
(* checkValidityPeriod on its own: issue and expiry dates up to             *)
(* MaxPeriodYears calendar years apart, give or take a few days             *)

IssueDates ==
    { IssueDateText, [y |-> 2016, m |-> 1, d |-> 15], [y |-> 2020, m |-> 3, d |-> 1] }

AddYears(date, n) == [date EXCEPT !.y = @ + n]

\* new Date('YYYY-MM-DD') values as days since the epoch
PeriodInputs ==
    { [issueDate |-> DaysFromCivil(i),
       expiryDate |-> DaysFromCivil(AddYears(i, n)) + slack] :
        i \in IssueDates, n \in 0..MaxPeriodYears, slack \in -3..3 }

PeriodInit ==
    /\ version \in {"improved", "legacy"}
    /\ instance = Constructed(version)
    /\ other = NoCall
    /\ imageData = Ev("dataimage", TRUE, << 640, 400 >>, TRUE, 8)
    /\ now = DaysFromCivil(ExpiryDateText)
    /\ pc = "period"
    /\ results = NewReport(version, imageData)
    /\ calls = << "validateValidity" >>
    /\ \E in \in PeriodInputs :
           invoked = << [stage |-> "validity", det |-> "checkValidityPeriod",
                         out |-> "called", issueDate |-> in.issueDate,
                         expiryDate |-> in.expiryDate] >>

\* const validityPeriod = this.checkValidityPeriod(issueDate, expiryDate);
\* results.elements.push({name: 'Período de validez',
\*                        passed: validityPeriod.valid,
\*                        value: validityPeriod.message})
ApplyCheckValidityPeriod ==
    /\ pc = "period"
    /\ LET validityPeriod ==
               checkValidityPeriod(invoked[1].issueDate, invoked[1].expiryDate)
       IN  results' = [results EXCEPT !.details =
               << StageResult("validity", FALSE,
                      << [name |-> "Periodo de validez",
                          passed |-> validityPeriod.valid,
                          value |-> validityPeriod.message] >>) >>]
    /\ invoked' = [invoked EXCEPT ![1].out = "ok"]
    /\ pc' = "checked"
    /\ UNCHANGED <<instance, other, version, imageData, now, calls>>

PeriodNext == ApplyCheckValidityPeriod

PeriodSpec == PeriodInit /\ [][PeriodNext]_vars

PeriodChecked == pc = "checked"
SpanDays == invoked[1].expiryDate - invoked[1].issueDate
PeriodElement == results.details[1].elements[1]

\* C23: checkValidityPeriod returns valid = true exactly when the span from
\* issue to expiry is at least 365 and at most 3650 days; the span from
\* 2019-01-15 to 2029-01-15 is 3653 days, so that credential is reported as
\* exceeding 10 years and its validity-period element fails.
C23_PeriodIn365DayYears ==
    PeriodChecked =>
        /\ PeriodElement.passed <=> (SpanDays >= 365 /\ SpanDays <= 3650)
        /\ (/\ invoked[1].issueDate = DaysFromCivil([y |-> 2019, m |-> 1, d |-> 15])
            /\ invoked[1].expiryDate = DaysFromCivil([y |-> 2029, m |-> 1, d |-> 15]))
           => /\ SpanDays = 3653
              /\ ~PeriodElement.passed
              /\ PeriodElement.value = "excede 10 anios"

\* the dates of the sample text were checked and the element failed
C23_Witness ==
    /\ PeriodChecked
    /\ invoked[1].issueDate = DaysFromCivil(IssueDateText)
    /\ invoked[1].expiryDate = DaysFromCivil(ExpiryDateText)
    /\ SpanDays = 3653
    /\ ~PeriodElement.passed

=============================================================================
